---- MODULE Spec2Model ----
(***************************************************************************)
(* Model of the planning orchestrator `create_plan` of src/main.rs and of  *)
(* the two collaborators it awaits: the completion gateway                  *)
(* (`call_deepseek`) and the scrape engine (`search_duckduckgo`).           *)
(*                                                                         *)
(* A Rust `String` is a sequence of tokens (TLA+ strings); concatenation    *)
(* (`push_str`, `format!`) is \o and `contains` is a real subsequence       *)
(* search, so a marker may be formed across two appended fragments.         *)
(* `Option<T>` is a sequence of length 0 (None) or 1 (Some(x)).             *)
(* `Result<T, E>` is [ok |-> BOOLEAN, val |-> ...]: the value or the cause. *)
(***************************************************************************)
EXTENDS Integers, Sequences, FiniteSets, TLC

VARIABLES
    request,         \* request.messages, the inbound conversation
    pc,              \* the await point the handler is suspended at
    search_count,    \* let mut search_count
    knowledge_base,  \* let mut knowledge_base
    messages,        \* let mut messages (the research conversation)
    pending,         \* the search_web call being dispatched: Some([fc, query])
    result,          \* the String create_plan returned: Some(text) once done
    last_call,       \* arguments of the latest call_deepseek: Some([messages, functions])
    last_reply,      \* what the latest completed call_deepseek returned: Some(Result)
    tool_calls,      \* number of call_deepseek(.., Some(search_fn)) issued
    plain_calls,     \* number of call_deepseek(.., None) issued
    search_log,      \* one entry per search_duckduckgo call: its query and outcome
    varied           \* number of freely chosen research replies so far

\* one response body read by call_deepseek
VARIABLES
    frames,            \* the SSE frames the provider wrote, in order
    wire,              \* the bytes of the body not yet delivered by the network
    combined_content,  \* let mut combined_content
    stream_pc          \* "reading", "returned" (Ok) or "failed" (Err)

\* one search_duckduckgo call
VARIABLES
    sd_query,      \* query: &str
    sd_page,       \* the elements matching .result__url in the results document
    sd_urls,       \* let urls (after take(5))
    sd_next,       \* position of the `for url in urls` loop
    sd_combined,   \* let mut combined_content
    sd_outcomes,   \* what each fetched URL answered, in request order
    sd_result,     \* the Result the call returned: Some(Result) once done
    sd_pc          \* "await_results", "await_page" or "returned"

\* the process: main, the Rocket server and run_cli
VARIABLES
    mode,              \* args.mode: "Server" or "Cli"
    DEEPSEEK_API_KEY,  \* the environment variable: None or Some(key)
    main_pc,           \* "starting", "listening", "prompt", "mode_choice",
                       \* "in_flight", "exited" or "crashed"
    cli_messages,      \* run_cli: let mut messages
    cli_request,       \* run_cli: the request of the operation in flight
    cli_choice,        \* run_cli: the operation in flight, "c" or "p"
    cli_run,           \* run_cli: the create_plan run in flight, Some(locals)
    cli_fed,           \* number of results the awaits of that run received
    questioned,        \* a plan operation ran the question phase since the
                       \* context was last reset
    cli_dropped,       \* the operation the latest Ctrl+C cancelled and the locals
                       \* dropped with it (None once the next line is read)
    http_log           \* the requests the server handled and what it answered

\* two create_plan runs in one server
VARIABLES
    runs,   \* per run: the locals of its create_plan invocation
    fed     \* per run: what its awaits have returned so far, in order

planVars == <<request, pc, search_count, knowledge_base, messages, pending, result,
              last_call, last_reply, tool_calls, plain_calls, search_log, varied>>

streamVars == <<frames, wire, combined_content, stream_pc>>

searchVars == <<sd_query, sd_page, sd_urls, sd_next, sd_combined, sd_outcomes,
                sd_result, sd_pc>>

mainVars == <<mode, DEEPSEEK_API_KEY, main_pc, cli_messages, cli_request, cli_choice,
              cli_run, cli_fed, questioned, cli_dropped, http_log>>

concVars == <<runs, fed>>

vars == <<planVars, streamVars, searchVars, mainVars, concVars>>

\* what a step of create_plan leaves alone
outsidePlan == <<streamVars, searchVars, mainVars, concVars>>

\* what a step of the stream loop leaves alone
outsideStream == <<planVars, searchVars, mainVars, concVars>>

\* what a step of search_duckduckgo leaves alone
outsideSearch == <<planVars, streamVars, mainVars, concVars>>

\* what a step of the process leaves alone
outsideMain == <<planVars, streamVars, searchVars, concVars>>

\* what a step of one of the two runs leaves alone
outsideRuns == <<planVars, streamVars, searchVars, mainVars>>

\* no pair of runs is modelled
RunsUnused == runs = <<>> /\ fed = <<>>

\* no response body is being read
StreamUnused ==
    /\ frames = <<>>
    /\ wire = <<>>
    /\ combined_content = <<>>
    /\ stream_pc = "unused"

\* no process is modelled
MainUnused ==
    /\ mode = "none"
    /\ DEEPSEEK_API_KEY = <<>>
    /\ main_pc = "unused"
    /\ cli_messages = <<>>
    /\ cli_request = <<>>
    /\ cli_choice = <<>>
    /\ cli_run = <<>>
    /\ cli_fed = 0
    /\ questioned = FALSE
    /\ cli_dropped = <<>>
    /\ http_log = <<>>

\* no search_duckduckgo call is in progress
SearchUnused ==
    /\ sd_query = <<>>
    /\ sd_page = <<>>
    /\ sd_urls = <<>>
    /\ sd_next = 0
    /\ sd_combined = <<>>
    /\ sd_outcomes = <<>>
    /\ sd_result = <<>>
    /\ sd_pc = "unused"

----------------------------------------------------------------------------
(* Bounds and program constants *)

\* number of research iterations whose reply is chosen freely; before them
\* the model answers with RoutineReply any number of times
MaxVaried == 2

MAX_SEARCHES == 50

----------------------------------------------------------------------------
(* Option, Result, strings *)

None == <<>>

Some(x) == <<x>>

Ok(v) == [ok |-> TRUE, val |-> v]

Err(e) == [ok |-> FALSE, val |-> e]

\* str::contains
Contains(s, sub) ==
    \E i \in 1..(Len(s) - Len(sub) + 1) : SubSeq(s, i, i + Len(sub) - 1) = sub

WS == " "

RECURSIVE TrimStart(_)
TrimStart(s) == IF s # <<>> /\ Head(s) = WS THEN TrimStart(Tail(s)) ELSE s

RECURSIVE TrimEnd(_)
TrimEnd(s) ==
    IF s # <<>> /\ s[Len(s)] = WS THEN TrimEnd(SubSeq(s, 1, Len(s) - 1)) ELSE s

\* str::trim
Trim(s) == TrimEnd(TrimStart(s))

\* Option::unwrap_or_default / unwrap_or("") on an optional string
UnwrapOrEmpty(o) == IF o = None THEN <<>> ELSE o[1]

\* Result<String, _>::unwrap_or_default
unwrap_or_default(r) == IF r.ok THEN r.val ELSE <<>>

----------------------------------------------------------------------------
(* Message model *)

\* struct Message
Message(role, content, name, function_call) ==
    [role |-> role, content |-> content, name |-> name,
     function_call |-> function_call]

\* struct FunctionCall
FunctionCall(name, arguments) == [name |-> name, arguments |-> arguments]

SENTINEL == <<"<<FINAL_", "ANSWER>>">>

PLAN_HEADER == <<"## Final Technical Plan">>

\* the three fixed system prompts of create_plan
QUESTION_PROMPT == <<"You are **PlanBot**. ... ask exactly six questions ...">>

RESEARCH_PROMPT == <<"You are **PlanBot-researcher**. ... at most 50 searches.">>

PLAN_PROMPT == <<"You are **PlanBot-final**. ... comprehensive technical plan ...">>

\* let search_fn = vec![Function { name: "search_web", .. }]
search_fn ==
    <<[name |-> "search_web", description |-> "Search DuckDuckGo",
       required |-> <<"query">>]>>

----------------------------------------------------------------------------
(* Inbound conversations *)

Goal == <<"Build a todo app">>

UserMsg(text) == Message("user", Some(text), None, None)

AssistantText(text) == Message("assistant", Some(text), None, None)

Answers == <<"A1", "A2">>

\* the inbound conversations considered: none, one message (plain, padded,
\* blank, without content), and more than one (answered, blank first message)
Requests ==
    { <<>>,
      <<UserMsg(Goal)>>,
      <<UserMsg(<<WS>> \o Goal \o <<WS>>)>>,
      <<UserMsg(<<WS, WS>>)>>,
      <<Message("user", None, None, None)>>,
      <<UserMsg(Goal), Message("user", Some(Answers), Some("alice"), None)>>,
      <<UserMsg(<<>>), AssistantText(<<"Q1?">>), UserMsg(<<"A1">>)>> }

----------------------------------------------------------------------------
(* Tool-call arguments: serde_json::from_str::<Value>(&fc.arguments) *)

ArgsOpen == "{\"query\":\""

ArgsClose == "\"}"

\* the JSON text {"query":"<q>"}
ArgsWithQuery(q) == <<ArgsOpen>> \o q \o <<ArgsClose>>

ArgsEmptyObject == <<"{}">>

ArgsNotJson == <<"search for", "rust">>

\* A parsed JSON value, as far as the handler looks at it: is it an object,
\* and the string under "query" if there is one.
JsonObject(query) == [object |-> TRUE, query |-> query]

\* serde_json::from_str(&fc.arguments)
ParseArgs(text) ==
    IF Len(text) >= 2 /\ text[1] = ArgsOpen /\ text[Len(text)] = ArgsClose
    THEN Ok(JsonObject(Some(SubSeq(text, 2, Len(text) - 1))))
    ELSE IF text = ArgsEmptyObject
    THEN Ok(JsonObject(None))
    ELSE Err(<<"expected value at line 1 column 1">>)

\* .unwrap_or_else(|_| serde_json::json!({}))
ArgsValue(text) ==
    LET parsed == ParseArgs(text) IN
    IF parsed.ok THEN parsed.val ELSE JsonObject(None)

\* args["query"].as_str().unwrap_or("").to_string()
QueryOf(text) == UnwrapOrEmpty(ArgsValue(text).query)

----------------------------------------------------------------------------
(* Wire encoding of a completion: struct DeepSeekResponse / DeepSeekChoice  *)

\* serde encoding of a Message; absent options are omitted
EncodeMessage(m) ==
    <<"{\"role\":", m.role>>
    \o (IF m.content = None THEN <<>> ELSE <<",\"content\":\"">> \o m.content[1] \o <<"\"">>)
    \o (IF m.name = None THEN <<>> ELSE <<",\"name\":", m.name[1]>>)
    \o (IF m.function_call = None THEN <<>>
        ELSE <<",\"function_call\":{\"name\":", m.function_call[1].name,
               ",\"arguments\":\"">> \o m.function_call[1].arguments \o <<"\"}">>)
    \o <<"}">>

RECURSIVE EncodeChoices(_)
EncodeChoices(choices) ==
    IF choices = <<>> THEN <<>>
    ELSE <<"{\"message\":">> \o EncodeMessage(Head(choices).message) \o <<"}">>
         \o EncodeChoices(Tail(choices))

\* the JSON text {"choices":[{"message":{..}}, ..]}
EncodeResponse(resp) == <<"{\"choices\":[">> \o EncodeChoices(resp.choices) \o <<"]}">>

----------------------------------------------------------------------------
(* What the remote model and the web can answer *)

Notes == <<"notes">>

Final == <<"enough", "<<FINAL_", "ANSWER>>">>

HalfA == <<"so far", "<<FINAL_">>

HalfB == <<"ANSWER>>", "and more">>

RoutineQuery == <<"rust", "planner">>

Call(name, arguments) == Some(FunctionCall(name, arguments))

\* the message the model is expected to send in the loop: one search_web call
RoutineMessage ==
    Message("assistant", None, None, Call("search_web", ArgsWithQuery(RoutineQuery)))

ModelMessages ==
    { RoutineMessage,
      Message("assistant", None, None, Call("search_web", ArgsNotJson)),
      Message("assistant", None, None, Call("search_web", ArgsEmptyObject)),
      Message("assistant", None, None, Call("fetch_page", ArgsWithQuery(RoutineQuery))),
      Message("assistant", Some(Notes), None, Call("fetch_page", ArgsNotJson)),
      Message("assistant", Some(Notes), None, None),
      Message("assistant", Some(Final), None, None),
      Message("assistant", Some(HalfA), None, None),
      Message("assistant", Some(HalfB), None, None),
      Message("assistant", Some(PLAN_HEADER), None, None),
      Message("assistant", None, None, None) }

\* struct DeepSeekResponse values the decoder can produce here
Responses ==
    {[choices |-> <<>>]} \cup {[choices |-> <<[message |-> m]>>] : m \in ModelMessages}

Prose == <<"Sure,", "let me think about that.">>

GatewayCause == <<"DeepSeek API error: 500 Internal Server Error">>

SearchCause == <<"error sending request for url (https://html.duckduckgo.com/html/)">>

PageText == <<"URL: ", "https://a.example", "\nContent: ", "text", "\n\n">>

\* Result<String, _> of call_deepseek: the concatenated streamed content
GatewayOutcomes ==
    {Err(GatewayCause), Ok(Prose)} \cup {Ok(EncodeResponse(r)) : r \in Responses}

RoutineReply == Ok(EncodeResponse([choices |-> <<[message |-> RoutineMessage]>>]))

\* Result<String, _> of search_duckduckgo
SearchOutcomes == {Ok(PageText), Err(SearchCause)}

RoutineResult == Ok(PageText)

\* serde_json::from_str::<DeepSeekResponse>(&text)
Decode(text) ==
    LET hits == {r \in Responses : EncodeResponse(r) = text} IN
    IF hits = {} THEN Err(<<"expected value at line 1 column 1">>)
    ELSE Ok(CHOOSE r \in hits : TRUE)

----------------------------------------------------------------------------
(* create_plan *)

\* the goal taken without trim()
user_goal_untrimmed(req) ==
    IF req = <<>> THEN <<>> ELSE UnwrapOrEmpty(Head(req).content)

\* request.messages.first().and_then(|m| m.content.as_deref()).unwrap_or("").trim()
user_goal(req) == IF req = <<>> THEN <<>> ELSE Trim(UnwrapOrEmpty(Head(req).content))

\* the phase test written as `messages.is_empty()`
IsQuestionPhase_empty(req) == Len(req) = 0

\* the phase test written as `messages.len() >= 1`
IsQuestionPhase_nonempty(req) == Len(req) >= 1

\* if request.messages.len() == 1
IsQuestionPhase(req) == Len(req) = 1

\* should_continue with the budget test off by one (count <= MAX_SEARCHES)
should_continue_inclusive(count, kb) ==
    /\ count <= MAX_SEARCHES
    /\ ~Contains(kb, SENTINEL)
    /\ ~Contains(kb, PLAN_HEADER)

\* should_continue testing the budget only
should_continue_budget_only(count, kb) == count < MAX_SEARCHES

\* fn should_continue(count: usize, kb: &str) -> bool
should_continue(count, kb) ==
    /\ count < MAX_SEARCHES
    /\ ~Contains(kb, SENTINEL)
    /\ ~Contains(kb, PLAN_HEADER)

\* let msgs = vec![system prompt, user goal]
QuestionMessages(req) ==
    <<Message("system", Some(QUESTION_PROMPT), None, None),
      Message("user", Some(user_goal(req)), None, None)>>

\* the inbound messages copied with role and content only, as `chat` does
ResearchMessages_stripped(req) ==
    <<Message("system", Some(RESEARCH_PROMPT), None, None)>>
    \o [i \in 1..Len(req) |-> Message(req[i].role, req[i].content, None, None)]

\* let mut messages = vec![research prompt]; messages.extend(request.messages.clone())
ResearchMessages(req) ==
    <<Message("system", Some(RESEARCH_PROMPT), None, None)>> \o req

\* the plan prompt built after the knowledge base was moved out (left empty)
final_prompt_moved(kb) ==
    <<Message("system", Some(PLAN_PROMPT), None, None),
      Message("user", Some(<<>>), None, None)>>

\* let final_prompt = ChatRequest { messages: vec![plan prompt, knowledge base] }
final_prompt(kb) ==
    <<Message("system", Some(PLAN_PROMPT), None, None),
      Message("user", Some(kb), None, None)>>

\* a replay that re-encodes the parsed arguments instead of cloning the call
ReplayMessage_reencoded(fc) ==
    Message("assistant", None, None,
            Some(FunctionCall(fc.name, ArgsWithQuery(QueryOf(fc.arguments)))))

\* the assistant-role message replaying the tool call
ReplayMessage(fc) == Message("assistant", None, None, Some(fc))

\* the function-role message carrying the search result
FunctionMessage(search_result) ==
    Message("function", Some(search_result), Some("search_web"), None)

\* the two pushes in the opposite order
DispatchMessages_swapped(fc, search_result) ==
    <<FunctionMessage(search_result), ReplayMessage(fc)>>

\* the messages.push(..) calls of one dispatch, in order
DispatchMessages(fc, search_result) ==
    <<ReplayMessage(fc), FunctionMessage(search_result)>>

\* search_duckduckgo(&query).await.unwrap_or_default()
SearchResultText(outcome) == unwrap_or_default(outcome)

\* a log line numbered from zero
SearchLogLine_zero_based(count, query) ==
    <<"\n--- Search #", ToString(count - 1), ": ">> \o query \o <<" ---\n">>

\* format!("\n--- Search #{search_count}: {query} ---\n")
SearchLogLine(count, query) ==
    <<"\n--- Search #", ToString(count), ": ">> \o query \o <<" ---\n">>

\* a dispatch on any tool name
IsSearchCall_any(fc) == TRUE

\* fc.name == "search_web"
IsSearchCall(fc) == fc.name = "search_web"

\* the break test looking for the other marker of should_continue
IsFinal_header(content) == Contains(content, PLAN_HEADER)

\* content.contains("<<FINAL_ANSWER>>")
IsFinal(content) == Contains(content, SENTINEL)

\* format!("api error: {e}")
QuestionError(e) == <<"api error: ">> \o e

\* the diagnostic without its {e}
ResearchError_nocause(e) == <<"DeepSeek error">>

\* format!("DeepSeek error: {e}")
ResearchError(e) == <<"DeepSeek error: ">> \o e

\* format!("parse error: {e}")
ParseError(e) == <<"parse error: ">> \o e

\* format!("final api error: {e}")
FinalError(e) == <<"final api error: ">> \o e

\* format!("final parse error: {e}")
FinalParseError(e) == <<"final parse error: ">> \o e

EmptyPrompt == <<"Error: empty prompt">>

\* call_deepseek(msgs, functions) is started: the handler suspends at `at`
CallDeepseek(msgs, functions, at) ==
    /\ pc' = at
    /\ last_call' = Some([messages |-> msgs, functions |-> functions])
    /\ IF functions = None
       THEN plain_calls' = plain_calls + 1 /\ UNCHANGED tool_calls
       ELSE tool_calls' = tool_calls + 1 /\ UNCHANGED plain_calls

\* the handler returns `text`
Return(text) ==
    /\ pc' = "done"
    /\ result' = Some(text)
    /\ UNCHANGED <<last_call, tool_calls, plain_calls>>

\* the handler panics (index out of bounds): no value is returned
Panic ==
    /\ pc' = "panicked"
    /\ UNCHANGED <<result, last_call, tool_calls, plain_calls>>

\* PLAN PHASE entry: the final call_deepseek(final_prompt.messages, None)
PlanPhase(kb) == CallDeepseek(final_prompt(kb), None, "await_plan")

\* the head of `while should_continue(search_count, &knowledge_base)`
LoopHead(count, kb, msgs) ==
    IF should_continue(count, kb)
    THEN CallDeepseek(msgs, Some(search_fn), "await_research")
    ELSE PlanPhase(kb)

\* create_plan from its entry to its first await (or return)
Start ==
    /\ pc = "start"
    /\ IF user_goal(request) = <<>>
       THEN /\ Return(EmptyPrompt)
            /\ UNCHANGED messages
       ELSE IF IsQuestionPhase(request)
       THEN /\ CallDeepseek(QuestionMessages(request), None, "await_question")
            /\ UNCHANGED <<result, messages>>
       ELSE /\ messages' = ResearchMessages(request)
            /\ LoopHead(0, <<>>, messages')
            /\ UNCHANGED result
    /\ UNCHANGED outsidePlan
    /\ UNCHANGED <<request, search_count, knowledge_base, pending, last_reply,
                   search_log, varied>>

\* QUESTION PHASE: call_deepseek(msgs, None) completed
QuestionReturns ==
    /\ pc = "await_question"
    /\ \E outcome \in GatewayOutcomes :
          /\ last_reply' = Some(outcome)
          /\ Return(IF outcome.ok THEN outcome.val ELSE QuestionError(outcome.val))
    /\ UNCHANGED outsidePlan
    /\ UNCHANGED <<request, search_count, knowledge_base, messages, pending,
                   search_log, varied>>

\* one pass of the loop body from the completed call_deepseek to the next
\* await: decode the reply, then either start a search, leave the loop, or
\* record the reply and go round again
HandleReply(outcome) ==
    IF ~outcome.ok
    THEN /\ Return(ResearchError(outcome.val))
         /\ UNCHANGED <<search_count, knowledge_base, messages, pending>>
    ELSE LET decoded == Decode(outcome.val) IN
    IF ~decoded.ok
    THEN /\ Return(ParseError(decoded.val))
         /\ UNCHANGED <<search_count, knowledge_base, messages, pending>>
    ELSE IF decoded.val.choices = <<>>
    THEN /\ Panic
         /\ UNCHANGED <<search_count, knowledge_base, messages, pending>>
    ELSE LET assistant_msg == decoded.val.choices[1].message
             fcall == assistant_msg.function_call
             content == assistant_msg.content
             kb == IF content = None THEN knowledge_base
                   ELSE knowledge_base \o content[1]
         IN
    IF fcall # None /\ IsSearchCall(fcall[1])
    THEN \* Case 1: search_duckduckgo(&query) is started
         /\ pending' = Some([fc |-> fcall[1], query |-> QueryOf(fcall[1].arguments)])
         /\ pc' = "await_search"
         /\ UNCHANGED <<search_count, knowledge_base, messages, result,
                        last_call, tool_calls, plain_calls>>
    ELSE IF content # None /\ IsFinal(content[1])
    THEN \* Case 2: break
         /\ knowledge_base' = kb
         /\ PlanPhase(kb)
         /\ UNCHANGED <<search_count, messages, pending, result>>
    ELSE \* intermediate synthesis: messages.push(assistant_msg)
         /\ knowledge_base' = kb
         /\ messages' = Append(messages, assistant_msg)
         /\ LoopHead(search_count, kb, messages')
         /\ UNCHANGED <<search_count, pending, result>>

\* RESEARCH PHASE: call_deepseek(messages, Some(search_fn)) completed.
\* The model answers RoutineReply any number of times, then at most
\* MaxVaried arbitrary replies.
ResearchReturns ==
    /\ pc = "await_research"
    /\ \E outcome \in GatewayOutcomes :
          /\ \/ varied = 0 /\ outcome = RoutineReply /\ UNCHANGED varied
             \/ varied < MaxVaried /\ varied' = varied + 1
          /\ last_reply' = Some(outcome)
          /\ HandleReply(outcome)
    /\ UNCHANGED outsidePlan
    /\ UNCHANGED <<request, search_log>>

\* RESEARCH PHASE: search_duckduckgo(&query) completed; the rest of Case 1
\* up to `continue`, then the loop head
SearchReturns ==
    /\ pc = "await_search"
    /\ \E outcome \in SearchOutcomes :
          /\ varied = 0 => outcome = RoutineResult
          /\ LET search_result == SearchResultText(outcome)
                 count == search_count + 1
                 fc == pending[1].fc
                 query == pending[1].query
             IN /\ search_count' = count
                /\ messages' = messages \o DispatchMessages(fc, search_result)
                /\ knowledge_base' = knowledge_base \o SearchLogLine(count, query)
                /\ search_log' = Append(search_log, [query |-> query, outcome |-> outcome])
                /\ pending' = None
                /\ LoopHead(count, knowledge_base', messages')
    /\ UNCHANGED outsidePlan
    /\ UNCHANGED <<request, result, last_reply, varied>>

\* PLAN PHASE: the final call_deepseek completed
PlanReturns ==
    /\ pc = "await_plan"
    /\ \E outcome \in GatewayOutcomes :
          /\ last_reply' = Some(outcome)
          /\ IF ~outcome.ok THEN Return(FinalError(outcome.val))
             ELSE LET decoded == Decode(outcome.val) IN
                  IF ~decoded.ok THEN Return(FinalParseError(decoded.val))
                  ELSE IF decoded.val.choices = <<>> THEN Panic
                  ELSE Return(UnwrapOrEmpty(decoded.val.choices[1].message.content))
    /\ UNCHANGED outsidePlan
    /\ UNCHANGED <<request, search_count, knowledge_base, messages, pending,
                   search_log, varied>>

Init ==
    /\ request \in Requests
    /\ pc = "start"
    /\ search_count = 0
    /\ knowledge_base = <<>>
    /\ messages = <<>>
    /\ pending = None
    /\ result = None
    /\ last_call = None
    /\ last_reply = None
    /\ tool_calls = 0
    /\ plain_calls = 0
    /\ search_log = <<>>
    /\ varied = 0
    /\ StreamUnused
    /\ SearchUnused
    /\ MainUnused
    /\ RunsUnused

Next ==
    \/ Start
    \/ QuestionReturns
    \/ ResearchReturns
    \/ SearchReturns
    \/ PlanReturns

Spec == Init /\ [][Next]_vars

TypeOK ==
    /\ pc \in {"start", "await_question", "await_research", "await_search",
               "await_plan", "done", "panicked"}
    /\ search_count \in Nat
    /\ varied \in 0..MaxVaried
    /\ Len(result) <= 1

----------------------------------------------------------------------------
(* call_deepseek: the loop over response.bytes_stream()                     *)
(*                                                                         *)
(* The body is a sequence of byte tokens; the network may cut it between    *)
(* any two of them.  "data: " is two tokens, a two-byte character is two    *)
(* tokens, the JSON delta is an opening token, the content and a closing    *)
(* token.                                                                   *)

\* number of SSE frames in one response body
MaxFrames == 2

NL == "\n"

DataPrefix == <<"da", "ta: ">>

DeltaOpen == "{\"choices\":[{\"delta\":{\"content\":\""

DeltaClose == "\"}}]}"

\* the two bytes of one non-ASCII character
Lead == "C3"

Trail == "A9"

ContentBytes == {"a", "b", Lead, Trail}

\* the content fragments a frame may carry
Fragments == {<<"a">>, <<"b", "a">>, <<Lead, Trail>>}

\* the payload of the closing frame `data: [DONE]`
DoneMark == <<"[DONE]">>

\* data: {"choices":[{"delta":{"content":"<fragment>"}}]}\n\n
ContentFrame(fragment) ==
    DataPrefix \o <<DeltaOpen>> \o fragment \o <<DeltaClose>> \o <<NL, NL>>

DoneFrame == DataPrefix \o DoneMark \o <<NL, NL>>

\* the bytes of a frame, given what it carries
FrameBytes(f) == IF f = DoneMark THEN DoneFrame ELSE ContentFrame(f)

RECURSIVE BodyBytes(_)
BodyBytes(fs) == IF fs = <<>> THEN <<>> ELSE FrameBytes(Head(fs)) \o BodyBytes(Tail(fs))

\* the delta.content fragments of the frames, concatenated in order
RECURSIVE SentContent(_)
SentContent(fs) ==
    IF fs = <<>> THEN <<>>
    ELSE (IF Head(fs) = DoneMark THEN <<>> ELSE Head(fs)) \o SentContent(Tail(fs))

\* std::str::from_utf8(&chunk).is_ok()
Utf8Valid(chunk) ==
    \A i \in 1..Len(chunk) :
        /\ chunk[i] = Lead => (i < Len(chunk) /\ chunk[i + 1] = Trail)
        /\ chunk[i] = Trail => (i > 1 /\ chunk[i - 1] = Lead)

\* chunk_str.split("\n\n"): `cur` is the piece being collected
RECURSIVE SplitEvents(_, _)
SplitEvents(s, cur) ==
    IF s = <<>> THEN <<cur>>
    ELSE IF Len(s) >= 2 /\ s[1] = NL /\ s[2] = NL
    THEN <<cur>> \o SplitEvents(SubSeq(s, 3, Len(s)), <<>>)
    ELSE SplitEvents(Tail(s), Append(cur, Head(s)))

\* s.starts_with("data: {")
StartsWithDataBrace(event) ==
    /\ Len(event) >= 3
    /\ SubSeq(event, 1, 2) = DataPrefix
    /\ event[3] = DeltaOpen

\* &event[6..]
JsonStr(event) == SubSeq(event, 3, Len(event))

\* serde_json::from_str::<Value>(json_str), then
\* choices[*].delta["content"].as_str(): Some(content) when the text is one
\* complete delta document (trailing whitespace allowed), None otherwise
DeltaContent(json_str) ==
    LET closes == {k \in 1..Len(json_str) : json_str[k] = DeltaClose} IN
    IF /\ Len(json_str) >= 2
       /\ json_str[1] = DeltaOpen
       /\ Cardinality(closes) = 1
       /\ LET k == CHOOSE c \in closes : TRUE IN
             /\ \A i \in 2..(k - 1) : json_str[i] \in ContentBytes
             /\ \A i \in (k + 1)..Len(json_str) : json_str[i] = NL
    THEN LET k == CHOOSE c \in closes : TRUE IN Some(SubSeq(json_str, 2, k - 1))
    ELSE None

\* the `for event in ...` loop: what the events push onto combined_content
RECURSIVE EventsContent(_)
EventsContent(events) ==
    IF events = <<>> THEN <<>>
    ELSE (IF StartsWithDataBrace(Head(events))
          THEN UnwrapOrEmpty(DeltaContent(JsonStr(Head(events))))
          ELSE <<>>)
         \o EventsContent(Tail(events))

\* the body of `while let Some(item) = stream.next().await` for one chunk
ProcessChunk(combined, chunk) ==
    IF Utf8Valid(chunk) THEN combined \o EventsContent(SplitEvents(chunk, <<>>))
    ELSE combined

\* no create_plan run is in progress
PlanUnused ==
    /\ request = <<>>
    /\ pc = "unused"
    /\ search_count = 0
    /\ knowledge_base = <<>>
    /\ messages = <<>>
    /\ pending = None
    /\ result = None
    /\ last_call = None
    /\ last_reply = None
    /\ tool_calls = 0
    /\ plain_calls = 0
    /\ search_log = <<>>
    /\ varied = 0

FrameKinds == Fragments \cup {DoneMark}

\* the bodies considered: one to MaxFrames frames
Bodies == UNION {[1..n -> FrameKinds] : n \in 1..MaxFrames}

\* the status was a success and the body is about to be read
StreamInit ==
    /\ frames \in Bodies
    /\ wire = BodyBytes(frames)
    /\ combined_content = <<>>
    /\ stream_pc = "reading"
    /\ PlanUnused
    /\ SearchUnused
    /\ MainUnused
    /\ RunsUnused

\* stream.next() yields Some(Ok(chunk)): the next n bytes of the body
ReceiveChunk ==
    /\ stream_pc = "reading"
    /\ \E n \in 1..Len(wire) :
          /\ combined_content' = ProcessChunk(combined_content, SubSeq(wire, 1, n))
          /\ wire' = SubSeq(wire, n + 1, Len(wire))
    /\ UNCHANGED <<frames, stream_pc>>
    /\ UNCHANGED outsideStream

\* stream.next() yields Some(Err(e)): `item?` returns the error
StreamFails ==
    /\ stream_pc = "reading"
    /\ wire # <<>>
    /\ stream_pc' = "failed"
    /\ UNCHANGED <<frames, wire, combined_content>>
    /\ UNCHANGED outsideStream

\* stream.next() yields None: Ok(combined_content)
StreamEnds ==
    /\ stream_pc = "reading"
    /\ wire = <<>>
    /\ stream_pc' = "returned"
    /\ UNCHANGED <<frames, wire, combined_content>>
    /\ UNCHANGED outsideStream

StreamNext ==
    \/ ReceiveChunk
    \/ StreamFails
    \/ StreamEnds

StreamSpec == StreamInit /\ [][StreamNext]_vars

\* C12: whatever the split of the body into chunks, call_deepseek returns
\* the concatenation, in arrival order, of all delta.content fragments: the
\* text it returns when the body arrives as a single chunk.
C12_ChunkingInvariant ==
    stream_pc = "returned" =>
        /\ combined_content = SentContent(frames)
        /\ combined_content = ProcessChunk(<<>>, BodyBytes(frames))

----------------------------------------------------------------------------
(* search_duckduckgo                                                        *)

\* number of .result__url elements in the results document
MaxResults == 7

\* urls.into_iter().take(5)
TopUrls == 5

Queries == {<<>>, <<"rust", " ", "actors">>}

\* the i-th .result__url element of the provider's document: its href
\* attribute, protocol-relative, absolute or missing
Element(i) ==
    IF i = 3 THEN None
    ELSE IF i % 3 = 1 THEN Some(<<"//", "site", ToString(i)>>)
    ELSE Some(<<"https:", "//", "site", ToString(i)>>)

\* the results documents considered: the elements at the positions `keep`,
\* in document order
RECURSIVE PageOf(_, _)
PageOf(keep, i) ==
    IF i > MaxResults THEN <<>>
    ELSE (IF i \in keep THEN <<Element(i)>> ELSE <<>>) \o PageOf(keep, i + 1)

Pages == {PageOf(keep, 1) : keep \in SUBSET (1..MaxResults)}

\* if href.starts_with("//") { format!("https:{}", href) } else { href }
NormalizeHref(href) == IF href[1] = "//" THEN <<"https:">> \o href ELSE href

\* the `for element in document.select(&selector)` loop
RECURSIVE ExtractUrls(_)
ExtractUrls(page) ==
    IF page = <<>> THEN <<>>
    ELSE (IF Head(page) # None THEN <<NormalizeHref(Head(page)[1])>> ELSE <<>>)
         \o ExtractUrls(Tail(page))

\* Iterator::take(n)
Take(s, n) == SubSeq(s, 1, IF Len(s) < n THEN Len(s) ELSE n)

FetchCause == "error sending request"

\* body.text().collect::<Vec<_>>().join(" ") of a fetched document
BodyTexts == {<<>>, <<"page text">>}

\* what one client.get(&url).send() and response.text() give: the request
\* fails, the response arrives but its body cannot be read, or the body is
\* read (whatever the HTTP status: the status is never inspected)
PageOutcomes ==
    {[kind |-> "send_err", status |-> 0, text |-> <<>>],
     [kind |-> "text_err", status |-> 200, text |-> <<>>]}
    \cup [kind : {"body"}, status : {200, 500}, text : BodyTexts]

\* format!("URL: {}\nContent: {}\n\n", url, text)
ContentBlock(url, text) == <<"URL: ">> \o url \o <<"\nContent: ">> \o text \o <<"\n\n">>

\* format!("Failed to fetch {}: {}\n", url, e)
FailureNote(url, e) == <<"Failed to fetch ">> \o url \o <<": ", e, "\n">>

NO_CONTENT == <<"No content found">>

\* one arm of `match client.get(&url).send().await`: what is pushed
Scraped(url, o) ==
    IF o.kind = "send_err" THEN FailureNote(url, FetchCause)
    ELSE IF o.kind = "body" THEN ContentBlock(url, o.text)
    ELSE <<>>

Finish_raw(combined) == Ok(combined)

\* if combined_content.is_empty() { "No content found" }; Ok(combined_content)
Finish(combined) == Ok(IF combined = <<>> THEN NO_CONTENT ELSE combined)

SearchInit ==
    /\ sd_query \in Queries
    /\ sd_page = <<>>
    /\ sd_urls = <<>>
    /\ sd_next = 0
    /\ sd_combined = <<>>
    /\ sd_outcomes = <<>>
    /\ sd_result = None
    /\ sd_pc = "await_results"
    /\ PlanUnused
    /\ StreamUnused
    /\ MainUnused
    /\ RunsUnused

\* the results request or the read of its body fails: `?` returns the error
ResultsFail ==
    /\ sd_pc = "await_results"
    /\ sd_result' = Some(Err(FetchCause))
    /\ sd_pc' = "returned"
    /\ UNCHANGED <<sd_query, sd_page, sd_urls, sd_next, sd_combined, sd_outcomes>>
    /\ UNCHANGED outsideSearch

\* the results document arrives: extract, take(5), then fetch the first URL
\* or, with no URL, return
ResultsReturn ==
    /\ sd_pc = "await_results"
    /\ \E page \in Pages :
          LET urls == Take(ExtractUrls(page), TopUrls) IN
          /\ sd_page' = page
          /\ sd_urls' = urls
          /\ IF urls = <<>>
             THEN /\ sd_next' = 0
                  /\ sd_result' = Some(Finish(<<>>))
                  /\ sd_pc' = "returned"
             ELSE /\ sd_next' = 1
                  /\ sd_result' = None
                  /\ sd_pc' = "await_page"
    /\ UNCHANGED <<sd_query, sd_combined, sd_outcomes>>
    /\ UNCHANGED outsideSearch

\* the fetch of urls[sd_next] completes: one pass of `for url in urls`
PageReturns ==
    /\ sd_pc = "await_page"
    /\ \E o \in PageOutcomes :
          LET combined == sd_combined \o Scraped(sd_urls[sd_next], o) IN
          /\ sd_combined' = combined
          /\ sd_outcomes' = Append(sd_outcomes, o)
          /\ IF sd_next = Len(sd_urls)
             THEN /\ sd_result' = Some(Finish(combined))
                  /\ sd_pc' = "returned"
                  /\ UNCHANGED sd_next
             ELSE /\ sd_next' = sd_next + 1
                  /\ UNCHANGED <<sd_result, sd_pc>>
    /\ UNCHANGED <<sd_query, sd_page, sd_urls>>
    /\ UNCHANGED outsideSearch

SearchNext ==
    \/ ResultsFail
    \/ ResultsReturn
    \/ PageReturns

SearchSpec == SearchInit /\ [][SearchNext]_vars

\* the call returned Ok(text)
SearchReturned == sd_pc = "returned" /\ sd_result # None

\* no fetched URL gave page content: each failed or had an empty body
NoPageContent ==
    \A i \in 1..Len(sd_outcomes) :
        sd_outcomes[i].kind # "body" \/ sd_outcomes[i].text = <<>>

NothingPushed ==
    \A i \in 1..Len(sd_outcomes) : sd_outcomes[i].kind = "text_err"

RECURSIVE ExpectedAggregate(_, _)
ExpectedAggregate(urls, outcomes) ==
    IF outcomes = <<>> THEN <<>>
    ELSE (IF Head(outcomes).kind = "body"
          THEN ContentBlock(Head(urls), Head(outcomes).text)
          ELSE FailureNote(Head(urls), FetchCause))
         \o ExpectedAggregate(Tail(urls), Tail(outcomes))

\* C14: at most the first 5 extracted URLs are fetched, in document order,
\* a failure on one URL never aborts the call, and the returned aggregate
\* holds a block for each succeeding URL and a failure note for each
\* failing one, in request order.
C14_FailuresNoted ==
    /\ sd_pc \in {"await_page", "returned"} =>
          /\ Len(sd_urls) <= TopUrls
          /\ sd_urls = Take(ExtractUrls(sd_page), TopUrls)
    /\ (SearchReturned /\ sd_outcomes # <<>>) =>
          /\ Len(sd_outcomes) = Len(sd_urls)
          /\ sd_result = Some(Ok(ExpectedAggregate(sd_urls, sd_outcomes)))

----------------------------------------------------------------------------
(* One create_plan run as a record of its locals                            *)

\* number of results each run's awaits receive
MaxFed == 4

Runs == {1, 2}

\* a request that has not arrived yet
Idle ==
    [request |-> <<>>, pc |-> "idle", search_count |-> 0, knowledge_base |-> <<>>,
     messages |-> <<>>, pending |-> None, result |-> None]

\* the gateway replies considered for the pair of runs
PairOutcomes ==
    {RoutineReply, Err(GatewayCause),
     Ok(EncodeResponse([choices |-> <<[message |-> AssistantText(Notes)]>>])),
     Ok(EncodeResponse([choices |-> <<[message |-> AssistantText(Final)]>>]))}

StartInput(req) == [kind |-> "start", request |-> req, outcome |-> Ok(<<>>)]

AwaitInput(outcome) == [kind |-> "await", request |-> <<>>, outcome |-> outcome]

\* the handler of run r returns `text`
RunReturn(r, text) == [r EXCEPT !.pc = "done", !.result = Some(text)]

\* the head of the while loop of run r
RunLoopHead(r) ==
    IF should_continue(r.search_count, r.knowledge_base)
    THEN [r EXCEPT !.pc = "await_research"]
    ELSE [r EXCEPT !.pc = "await_plan"]

\* create_plan(req) up to its first await
RunStart(req) ==
    LET r == [Idle EXCEPT !.request = req, !.pc = "start"] IN
    IF user_goal(req) = <<>> THEN RunReturn(r, EmptyPrompt)
    ELSE IF IsQuestionPhase(req) THEN [r EXCEPT !.pc = "await_question"]
    ELSE RunLoopHead([r EXCEPT !.messages = ResearchMessages(req)])

\* the research reply of run r, as in HandleReply
RunHandleReply(r, outcome) ==
    IF ~outcome.ok THEN RunReturn(r, ResearchError(outcome.val))
    ELSE LET decoded == Decode(outcome.val) IN
    IF ~decoded.ok THEN RunReturn(r, ParseError(decoded.val))
    ELSE IF decoded.val.choices = <<>> THEN [r EXCEPT !.pc = "panicked"]
    ELSE LET assistant_msg == decoded.val.choices[1].message
             fcall == assistant_msg.function_call
             content == assistant_msg.content
             kb == IF content = None THEN r.knowledge_base
                   ELSE r.knowledge_base \o content[1]
         IN
    IF fcall # None /\ IsSearchCall(fcall[1])
    THEN [r EXCEPT !.pending = Some([fc |-> fcall[1],
                                     query |-> QueryOf(fcall[1].arguments)]),
                   !.pc = "await_search"]
    ELSE IF content # None /\ IsFinal(content[1])
    THEN [r EXCEPT !.knowledge_base = kb, !.pc = "await_plan"]
    ELSE RunLoopHead([r EXCEPT !.knowledge_base = kb,
                               !.messages = Append(r.messages, assistant_msg)])

\* a call_deepseek of run r completed
RunOnReply(r, outcome) ==
    IF r.pc = "await_question"
    THEN RunReturn(r, IF outcome.ok THEN outcome.val ELSE QuestionError(outcome.val))
    ELSE IF r.pc = "await_research" THEN RunHandleReply(r, outcome)
    ELSE IF ~outcome.ok THEN RunReturn(r, FinalError(outcome.val))
    ELSE LET decoded == Decode(outcome.val) IN
         IF ~decoded.ok THEN RunReturn(r, FinalParseError(decoded.val))
         ELSE IF decoded.val.choices = <<>> THEN [r EXCEPT !.pc = "panicked"]
         ELSE RunReturn(r, UnwrapOrEmpty(decoded.val.choices[1].message.content))

\* a search counter kept once for the whole server
SearchCount_shared(rs, i) == rs[1].search_count + rs[2].search_count

\* let mut search_count = 0usize: a local of the invocation
SearchCount(rs, i) == rs[i].search_count

\* the search_duckduckgo of run i completed
RunOnSearch(rs, i, outcome) ==
    LET r == rs[i]
        count == SearchCount(rs, i) + 1
        msgs == r.messages \o DispatchMessages(r.pending[1].fc, SearchResultText(outcome))
        kb == r.knowledge_base \o SearchLogLine(count, r.pending[1].query)
    IN RunLoopHead([r EXCEPT !.search_count = count, !.messages = msgs,
                             !.knowledge_base = kb, !.pending = None])

\* run i resumes with `input`
RunStep(rs, i, input) ==
    IF input.kind = "start" THEN RunStart(input.request)
    ELSE IF rs[i].pc = "await_search" THEN RunOnSearch(rs, i, input.outcome)
    ELSE RunOnReply(rs[i], input.outcome)

\* run i executing alone on the inputs `inputs`
RECURSIVE SoloRun(_, _)
SoloRun(i, inputs) ==
    IF inputs = <<>> THEN Idle
    ELSE LET before == SoloRun(i, SubSeq(inputs, 1, Len(inputs) - 1)) IN
         RunStep([j \in Runs |-> IF j = i THEN before ELSE Idle], i,
                 inputs[Len(inputs)])

----------------------------------------------------------------------------
(* main, the Rocket routes and run_cli                                      *)
(*                                                                         *)
(* A request is handled in one step; of a create_plan run only the string   *)
(* it returns is kept here.                                                 *)

\* number of requests the server handles
MaxRequests == 2

\* number of messages run_cli keeps before no further line is read
MaxContext == 4

KeyValue == <<"sk-key">>

\* std::env::var("DEEPSEEK_API_KEY").expect(..) panics
KeyMissing == DEEPSEEK_API_KEY = None

ExitWords == {<<"exit">>, <<"quit">>, <<"/q">>, <<"/quit">>}

\* u8::to_ascii_lowercase over the letters that occur
AsciiLower(tok) ==
    IF tok = "Quit" THEN "quit" ELSE IF tok = "P" THEN "p" ELSE tok

LowerLine(line) == [i \in 1..Len(line) |-> AsciiLower(line[i])]

\* the lines typed at the `> ` prompt
InputLines == {<<>>, <<WS>>, <<"Quit">>, Goal, <<WS>> \o Answers}

\* the lines typed at the `[c/p/b/r]> ` prompt
ChoiceLines == {<<"c">>, <<"P", WS>>, <<"b">>, <<"r">>, <<"x">>}

QuestionsText == <<"1. Who will use it?">>

PlanText == PLAN_HEADER \o <<"...">>

ChatText == <<"Hello!">>

\* chat: request.messages with name and function_call dropped
ChatMessages(req) ==
    [i \in 1..Len(req) |-> Message(req[i].role, req[i].content, None, None)]

\* chat: the JSON value for what call_deepseek returned
ChatJson(outcome) ==
    IF outcome.ok THEN [content |-> outcome.val]
    ELSE [error |-> <<"Error calling DeepSeek API: ">> \o outcome.val]

\* what call_deepseek(messages, None) gives to chat
ChatOutcomes == {Ok(ChatText), Err(GatewayCause)}

\* run_cli: response_content of the JSON value chat returned
ResponseContent(json) ==
    IF "content" \in DOMAIN json THEN json.content
    ELSE IF "error" \in DOMAIN json THEN <<"Error: ">> \o json.error
    ELSE <<"Unexpected response format">>

\* create_plan returns before any call_deepseek
PlanWithoutCall(req) == user_goal(req) = <<>>

\* the strings a create_plan run that calls the gateway may return
PlanResults(req) ==
    IF IsQuestionPhase(req)
    THEN {QuestionsText, QuestionError(GatewayCause)}
    ELSE {PlanText, ResearchError(GatewayCause), FinalError(GatewayCause)}

MainInit ==
    /\ mode \in {"Server", "Cli"}
    /\ DEEPSEEK_API_KEY \in {None, Some(KeyValue)}
    /\ main_pc = "starting"
    /\ cli_messages = <<>>
    /\ cli_request = None
    /\ cli_choice = None
    /\ cli_run = None
    /\ cli_fed = 0
    /\ questioned = FALSE
    /\ cli_dropped = None
    /\ http_log = <<>>
    /\ PlanUnused
    /\ StreamUnused
    /\ SearchUnused
    /\ RunsUnused

\* main: match args.mode, up to the listening server or the first prompt
Launch ==
    /\ main_pc = "starting"
    /\ main_pc' = IF mode = "Server" THEN "listening" ELSE "prompt"
    /\ UNCHANGED <<mode, DEEPSEEK_API_KEY, cli_messages, cli_request, cli_choice,
                   cli_run, cli_fed, questioned, cli_dropped, http_log>>
    /\ UNCHANGED outsideMain

\* rocket .launch().await? fails (the port is taken): main returns the error
LaunchFails ==
    /\ main_pc = "starting"
    /\ mode = "Server"
    /\ main_pc' = "exited"
    /\ UNCHANGED <<mode, DEEPSEEK_API_KEY, cli_messages, cli_request, cli_choice,
                   cli_run, cli_fed, questioned, cli_dropped, http_log>>
    /\ UNCHANGED outsideMain

\* a handler panicked on the missing key: the server answers 500 and goes
\* on (unwinding build) or the process dies (aborting build)
HandlerPanics(route, req) ==
    \/ /\ http_log' = Append(http_log, [route |-> route, request |-> req,
                                        status |-> 500, body |-> <<>>])
       /\ UNCHANGED main_pc
    \/ /\ main_pc' = "crashed"
       /\ UNCHANGED http_log

Answer(route, req, body) ==
    /\ http_log' = Append(http_log, [route |-> route, request |-> req,
                                     status |-> 200, body |-> body])
    /\ UNCHANGED main_pc

\* POST /planner/chat
ServeChat ==
    /\ main_pc = "listening"
    /\ Len(http_log) < MaxRequests
    /\ \E req \in Requests :
          IF KeyMissing THEN HandlerPanics("chat", req)
          ELSE \E outcome \in ChatOutcomes :
                  Answer("chat", req, ResponseContent(ChatJson(outcome)))
    /\ UNCHANGED <<mode, DEEPSEEK_API_KEY, cli_messages, cli_request, cli_choice,
                   cli_run, cli_fed, questioned, cli_dropped>>
    /\ UNCHANGED outsideMain

\* POST /planner/create_plan
ServePlan ==
    /\ main_pc = "listening"
    /\ Len(http_log) < MaxRequests
    /\ \E req \in Requests :
          IF PlanWithoutCall(req) THEN Answer("create_plan", req, EmptyPrompt)
          ELSE IF KeyMissing THEN HandlerPanics("create_plan", req)
          ELSE \E text \in PlanResults(req) : Answer("create_plan", req, text)
    /\ UNCHANGED <<mode, DEEPSEEK_API_KEY, cli_messages, cli_request, cli_choice,
                   cli_run, cli_fed, questioned, cli_dropped>>
    /\ UNCHANGED outsideMain

\* run_cli: one line read at the `> ` prompt
ReadInput ==
    /\ main_pc = "prompt"
    /\ Len(cli_messages) < MaxContext
    /\ \E line \in InputLines :
          LET input == Trim(line) IN
          IF LowerLine(input) \in ExitWords
          THEN main_pc' = "exited" /\ UNCHANGED cli_messages
          ELSE IF input = <<>>
          THEN UNCHANGED <<main_pc, cli_messages>>
          ELSE /\ cli_messages' = Append(cli_messages, UserMsg(input))
               /\ main_pc' = "mode_choice"
    /\ UNCHANGED <<mode, DEEPSEEK_API_KEY, cli_request, cli_choice, cli_run, cli_fed,
                   questioned, cli_dropped, http_log>>
    /\ UNCHANGED outsideMain

\* the conversation run_cli keeps when an operation is cancelled with its
\* partial notes kept
CancelledContext_partial(msgs, run) ==
    IF run = None THEN msgs
    ELSE Append(msgs, AssistantText(run[1].knowledge_base))

\* the conversation run_cli keeps when ctrl_c() wins the select!: the arm
\* only prints and continues, the dropped future takes its locals with it
CancelledContext(msgs, run) == msgs

\* run_cli: one line read at the `[c/p/b/r]> ` prompt, up to the first
\* await of the operation it starts
ReadChoice ==
    /\ main_pc = "mode_choice"
    /\ \E line \in ChoiceLines :
          LET choice == LowerLine(Trim(line)) IN
          IF choice = <<"p">> /\ PlanWithoutCall(cli_messages)
          THEN /\ cli_messages' = Append(cli_messages, AssistantText(EmptyPrompt))
               /\ main_pc' = "prompt"
               /\ UNCHANGED <<cli_request, cli_choice, cli_run, cli_fed, questioned>>
          ELSE IF choice \in {<<"p">>, <<"c">>}
          THEN IF KeyMissing
               THEN /\ main_pc' = "crashed"
                    /\ UNCHANGED <<cli_messages, cli_request, cli_choice, cli_run,
                                   cli_fed, questioned>>
               ELSE /\ cli_request' = Some(cli_messages)
                    /\ cli_choice' = Some(choice[1])
                    /\ cli_run' = IF choice = <<"p">> THEN Some(RunStart(cli_messages))
                                  ELSE None
                    /\ cli_fed' = 0
                    /\ questioned' = (questioned \/ (choice = <<"p">>
                                                     /\ IsQuestionPhase(cli_messages)))
                    /\ main_pc' = "in_flight"
                    /\ UNCHANGED cli_messages
          ELSE IF choice = <<"b">>
          THEN /\ cli_messages' = SubSeq(cli_messages, 1, Len(cli_messages) - 1)
               /\ main_pc' = "prompt"
               /\ UNCHANGED <<cli_request, cli_choice, cli_run, cli_fed, questioned>>
          ELSE IF choice = <<"r">>
          THEN /\ cli_messages' = <<>>
               /\ questioned' = FALSE
               /\ main_pc' = "prompt"
               /\ UNCHANGED <<cli_request, cli_choice, cli_run, cli_fed>>
          ELSE UNCHANGED <<main_pc, cli_messages, cli_request, cli_choice, cli_run,
                           cli_fed, questioned>>
    /\ cli_dropped' = None
    /\ UNCHANGED <<mode, DEEPSEEK_API_KEY, http_log>>
    /\ UNCHANGED outsideMain

\* the response joins the context and the prompt is shown again
PushResponse(response) ==
    /\ cli_messages' = Append(cli_messages, AssistantText(response))
    /\ cli_request' = None
    /\ cli_choice' = None
    /\ cli_run' = None
    /\ cli_fed' = 0
    /\ main_pc' = "prompt"

\* run_cli, chat in flight: chat(Json(request)) completes
ChatReturns ==
    /\ main_pc = "in_flight"
    /\ cli_choice = Some("c")
    /\ \E o \in ChatOutcomes : PushResponse(ResponseContent(ChatJson(o)))
    /\ UNCHANGED <<mode, DEEPSEEK_API_KEY, questioned, cli_dropped, http_log>>
    /\ UNCHANGED outsideMain

\* run_cli, plan in flight: an await inside create_plan(Json(request))
\* completes; the run goes on to its next await, or returns and its
\* response joins the context
PlanResumes ==
    /\ main_pc = "in_flight"
    /\ cli_choice = Some("p")
    /\ cli_fed < MaxFed
    /\ \E outcome \in
            IF cli_run[1].pc = "await_search" THEN SearchOutcomes ELSE PairOutcomes :
          LET run == RunStep([j \in Runs |-> cli_run[1]], 1, AwaitInput(outcome)) IN
          IF run.pc = "done"
          THEN PushResponse(run.result[1])
          ELSE /\ cli_run' = Some(run)
               /\ cli_fed' = cli_fed + 1
               /\ UNCHANGED <<main_pc, cli_messages, cli_request, cli_choice>>
    /\ UNCHANGED <<mode, DEEPSEEK_API_KEY, questioned, cli_dropped, http_log>>
    /\ UNCHANGED outsideMain

\* run_cli: ctrl_c() wins the select!: continue 'mode_choice
OperationCancelled ==
    /\ main_pc = "in_flight"
    /\ cli_messages' = CancelledContext(cli_messages, cli_run)
    /\ cli_request' = None
    /\ cli_choice' = None
    /\ cli_run' = None
    /\ cli_fed' = 0
    /\ main_pc' = "mode_choice"
    /\ cli_dropped' = Some([choice |-> cli_choice[1], run |-> cli_run])
    /\ UNCHANGED <<mode, DEEPSEEK_API_KEY, questioned, http_log>>
    /\ UNCHANGED outsideMain

MainNext ==
    \/ Launch
    \/ LaunchFails
    \/ ServeChat
    \/ ServePlan
    \/ ReadInput
    \/ ReadChoice
    \/ ChatReturns
    \/ PlanResumes
    \/ OperationCancelled

MainSpec == MainInit /\ [][MainNext]_vars

\* the process accepts requests: the server listens, or the CLI reads input
\* or runs an operation
AcceptsRequests == main_pc \in {"listening", "prompt", "mode_choice", "in_flight"}

\* the missing key was met while a request was handled
FailedPerRequest ==
    \/ \E i \in 1..Len(http_log) : http_log[i].status = 500
    \/ main_pc = "crashed"

\* C15: with DEEPSEEK_API_KEY absent the process fails at startup: it never
\* accepts a request, and the absence is never met while handling one.
C15_MissingKeyFatalAtStartup ==
    KeyMissing => (~AcceptsRequests /\ ~FailedPerRequest)

----------------------------------------------------------------------------
(* Two create_plan runs served concurrently                                 *)
(*                                                                         *)
(* Each run is the record of the locals of its own invocation; a step       *)
(* resumes one run at the await it is suspended on.                         *)

PairInit ==
    /\ runs = [i \in Runs |-> Idle]
    /\ fed = [i \in Runs |-> <<>>]
    /\ PlanUnused
    /\ StreamUnused
    /\ SearchUnused
    /\ MainUnused

Feed(i, input) ==
    /\ runs' = [runs EXCEPT ![i] = RunStep(runs, i, input)]
    /\ fed' = [fed EXCEPT ![i] = Append(fed[i], input)]
    /\ UNCHANGED outsideRuns

\* a request arrives and its handler runs to its first await
RunStarts(i) ==
    /\ runs[i].pc = "idle"
    /\ \E req \in Requests : Feed(i, StartInput(req))

\* a call_deepseek of run i completes
RunGatewayReturns(i) ==
    /\ runs[i].pc \in {"await_question", "await_research", "await_plan"}
    /\ Len(fed[i]) <= MaxFed
    /\ \E outcome \in PairOutcomes : Feed(i, AwaitInput(outcome))

\* the search_duckduckgo of run i completes
RunSearchReturns(i) ==
    /\ runs[i].pc = "await_search"
    /\ Len(fed[i]) <= MaxFed
    /\ \E outcome \in SearchOutcomes : Feed(i, AwaitInput(outcome))

PairNext ==
    \E i \in Runs :
        \/ RunStarts(i)
        \/ RunGatewayReturns(i)
        \/ RunSearchReturns(i)

PairSpec == PairInit /\ [][PairNext]_vars

\* every run is where it would be had it received its inputs alone
C16_Inv == \A i \in Runs : runs[i] = SoloRun(i, fed[i])

\* a step resumes one run and leaves the locals of the other untouched
C16_Step ==
    /\ \E i \in Runs : fed'[i] # fed[i]
    /\ \A i \in Runs : fed'[i] = fed[i] => runs'[i] = runs[i]

\* C16: two create_plan runs interleaved in any way share no mutable state:
\* the conversation, knowledge base and search_count of each evolve exactly
\* as if the run executed alone, and a step of one run changes nothing of
\* the other.
C16_RunsIndependent == []C16_Inv /\ [][C16_Step]_vars

\* both runs have searched and both are still in their research loop
C16_Witness ==
    /\ \A i \in Runs : runs[i].search_count >= 1
    /\ runs[1].pc = "await_research"
    /\ runs[2].pc = "await_search"
    /\ runs[1].messages # runs[2].messages

----------------------------------------------------------------------------
(* Properties *)

AwaitsGateway == pc \in {"await_question", "await_research", "await_plan"}

LeftLoop == pc \in {"await_plan", "done", "panicked"}

\* the latest call_deepseek was the final plan call over the current knowledge base
PlanCallIssued ==
    last_call = Some([messages |-> final_prompt(knowledge_base), functions |-> None])

\* C1 (state part): the budget is never exceeded, and a tool-enabled
\* completion call or a search is only ever in flight below the budget; at
\* the budget the run is in (or past) the plan phase, whose call carries the
\* knowledge base accumulated so far.
C1_Inv ==
    /\ search_count <= MAX_SEARCHES
    /\ pc \in {"await_research", "await_search"} => search_count < MAX_SEARCHES
    /\ search_count = MAX_SEARCHES => LeftLoop
    /\ (search_count = MAX_SEARCHES /\ pc = "await_plan") => PlanCallIssued

\* C1 (step part): search_count never decreases, and once it equals
\* MAX_SEARCHES no tool-enabled call and no search is made any more.
C1_Step ==
    /\ search_count' >= search_count
    /\ search_count = MAX_SEARCHES =>
          /\ tool_calls' = tool_calls
          /\ search_log' = search_log
          /\ pending' = None

\* C1: search_count <= MAX_SEARCHES always holds, search_count never
\* decreases, and at search_count = MAX_SEARCHES the loop has exited to the
\* plan phase without any further tool-enabled call or search, whatever the
\* model replies.
C1_BudgetBound == []C1_Inv /\ [][C1_Step]_vars

\* C1 witness: fifty searches were dispatched and the plan call is in flight
C1_Witness ==
    /\ search_count = MAX_SEARCHES
    /\ Len(search_log) = MAX_SEARCHES
    /\ pc = "await_plan"

\* C2: a run whose model never emits the marker runs until budget
\* exhaustion, so that the loop must exit: every tool-enabled completion call
\* but the one in flight has been paid for with one unit of the search
\* budget.  (The loop then ends within MAX_SEARCHES + 1 calls.)
C2_EveryIterationConsumesBudget ==
    (~Contains(knowledge_base, SENTINEL) /\ ~Contains(knowledge_base, PLAN_HEADER))
        => tool_calls <= search_count + 1

\* the latest call_deepseek was the clarifying-questions call
QuestionCallIssued ==
    last_call = Some([messages |-> QuestionMessages(request), functions |-> None])

\* what a one-message run must look like once create_plan has started
QuestioningRun ==
    /\ pc # "start" =>
          /\ pc \in {"await_question", "done"}
          /\ plain_calls = 1 /\ tool_calls = 0
          /\ QuestionCallIssued
    /\ search_log = <<>> /\ pending = None /\ search_count = 0
    /\ (pc = "done" /\ last_reply # None /\ last_reply[1].ok)
          => result = Some(last_reply[1].val)

\* C3 as stated: every conversation with exactly one message enters
\* Questioning: exactly one completion call, without tool schema, no search,
\* search count 0, and the gateway's reply is returned verbatim.
C3_Original == Len(request) = 1 => QuestioningRun

\* C3 as amended: the same, for every one-message conversation whose first
\* message has content that is not blank.
C3_Questioning == (Len(request) = 1 /\ user_goal(request) # <<>>) => QuestioningRun

\* C3 witness: a one-message run returned the gateway's reply
C3_Witness ==
    /\ Len(request) = 1
    /\ pc = "done"
    /\ plain_calls = 1
    /\ last_reply = Some(Ok(Prose))
    /\ result = Some(Prose)

\* the latest call_deepseek carried the research prompt, the inbound
\* conversation and the search_web schema
FirstResearchCallIssued ==
    last_call = Some([messages |-> ResearchMessages(request),
                      functions |-> Some(search_fn)])

\* what a run on more than one message must look like once create_plan has
\* started: its first call is the research call, and every call without tool
\* schema is the plan call, never the clarifying-questions call
ResearchingRun ==
    pc # "start" =>
        /\ tool_calls >= 1
        /\ pc # "await_question"
        /\ (tool_calls + plain_calls = 1) => FirstResearchCallIssued
        /\ last_call # None
        /\ ~QuestionCallIssued
        /\ last_call[1].functions = None =>
              Head(last_call[1].messages).content = Some(PLAN_PROMPT)

\* C4 as stated: every conversation with more than one message enters
\* Researching (first call: research prompt and search_web schema) and the
\* clarifying-questions call is never issued.
C4_Original == Len(request) > 1 => ResearchingRun

\* C4 as amended: the same, for every conversation of more than one message
\* whose first message has content that is not blank.
C4_Researching == (Len(request) > 1 /\ user_goal(request) # <<>>) => ResearchingRun

\* C4 witness: the first research call of a two-message run is in flight
C4_Witness ==
    /\ Len(request) > 1
    /\ pc = "await_research"
    /\ tool_calls = 1 /\ plain_calls = 0
    /\ FirstResearchCallIssued

\* a step that completes a search_web dispatch
DispatchCompletes == pc = "await_search" /\ search_log' # search_log

\* the outcome of the search just completed
CompletedOutcome == search_log'[Len(search_log')].outcome

\* the messages the step appended to the conversation
Appended == SubSeq(messages', Len(messages) + 1, Len(messages'))

\* C5 as stated: each successful search_web dispatch appends exactly three
\* messages: a system-role synthesis note, the assistant-role replay of the
\* tool call, and the function-role message named search_web with the raw
\* search text.
C5_Original ==
    [][(DispatchCompletes /\ CompletedOutcome.ok) =>
          /\ Len(messages') = Len(messages) + 3
          /\ Appended[1].role = "system"
          /\ Appended[2].role = "assistant"
          /\ Appended[2].function_call = Some(pending[1].fc)
          /\ Appended[3] = [role |-> "function", content |-> Some(CompletedOutcome.val),
                            name |-> Some("search_web"), function_call |-> None]]_vars

\* C5 as amended: each successful search_web dispatch appends exactly two
\* messages, in this order: the assistant-role replay of the tool call, then
\* the function-role message named search_web with the raw search text; the
\* earlier conversation is untouched and no system-role note is added.
C5_TwoMessages ==
    [][(DispatchCompletes /\ CompletedOutcome.ok) =>
          /\ Len(messages') = Len(messages) + 2
          /\ SubSeq(messages', 1, Len(messages)) = messages
          /\ Appended[1] = [role |-> "assistant", content |-> None, name |-> None,
                            function_call |-> Some(pending[1].fc)]
          /\ Appended[2] = [role |-> "function", content |-> Some(CompletedOutcome.val),
                            name |-> Some("search_web"), function_call |-> None]]_vars

\* C5 witness: a dispatch whose search succeeded has just been folded into
\* the conversation
C5_Witness ==
    /\ pc = "await_research"
    /\ search_log # <<>> /\ search_log[Len(search_log)].outcome = Ok(PageText)
    /\ Len(messages) = Len(request) + 1 + 2 * Len(search_log)
    /\ messages[Len(messages)].role = "function"
    /\ messages[Len(messages)].content = Some(PageText)

\* the tool call of the reply being dispatched, as the model sent it
OriginalCall == Decode(last_reply[1].val).val.choices[1].message.function_call[1]

\* C6: the assistant-role replay message of every dispatched tool call
\* carries a function_call whose name and arguments text equal those of the
\* model's tool call, also when the arguments text is not valid JSON.
C6_ReplayExact ==
    [][DispatchCompletes =>
          /\ Appended[1].role = "assistant"
          /\ Appended[1].function_call # None
          /\ Appended[1].function_call[1].name = OriginalCall.name
          /\ Appended[1].function_call[1].arguments = OriginalCall.arguments]_vars

\* C6 witness: a tool call whose arguments are not JSON was replayed
C6_Witness ==
    /\ search_log # <<>>
    /\ \E i \in (Len(request) + 2)..Len(messages) :
          /\ messages[i].role = "assistant"
          /\ messages[i].function_call = Some(FunctionCall("search_web", ArgsNotJson))

\* the reply is a decodable message without tool call whose content
\* contains the marker
PlainFinalReply(reply) ==
    /\ reply.ok
    /\ Decode(reply.val).ok
    /\ Decode(reply.val).val.choices # <<>>
    /\ LET m == Decode(reply.val).val.choices[1].message IN
          /\ m.function_call = None
          /\ m.content # None
          /\ Contains(m.content[1], SENTINEL)

ReplyContent(reply) == Decode(reply.val).val.choices[1].message.content[1]

\* C7: a plain-content reply containing the marker, after k < MAX_SEARCHES
\* searches, takes the run straight to the plan phase with search_count = k:
\* the content is appended to the knowledge base, the assistant message is
\* not appended to the conversation, and no tool-enabled call or search
\* follows.
C7_SentinelExits ==
    [][/\ (pc = "await_research" /\ last_reply' # None /\ PlainFinalReply(last_reply'[1])) =>
            /\ pc' = "await_plan"
            /\ search_count' = search_count /\ search_count' < MAX_SEARCHES
            /\ knowledge_base' = knowledge_base \o ReplyContent(last_reply'[1])
            /\ messages' = messages
            /\ tool_calls' = tool_calls /\ search_log' = search_log
            /\ last_call' = Some([messages |-> final_prompt(knowledge_base'),
                                  functions |-> None])
       /\ LeftLoop =>
            /\ pc' \in {"await_plan", "done", "panicked"}
            /\ search_count' = search_count
            /\ tool_calls' = tool_calls /\ search_log' = search_log]_vars

\* C7 witness: the marker arrived after three searches and the plan call is
\* in flight
C7_Witness ==
    /\ pc = "await_plan"
    /\ search_count = 3
    /\ last_reply # None /\ PlainFinalReply(last_reply[1])
    /\ Len(messages) = Len(request) + 1 + 2 * 3

\* C8 (state part): after a failed gateway call the run is over and returned
\* a non-empty text that contains the cause.
C8_Inv ==
    (last_reply # None /\ ~last_reply[1].ok) =>
        /\ pc = "done"
        /\ result # None
        /\ result[1] # <<>>
        /\ Contains(result[1], last_reply[1].val)

\* C8 (step part): the step that receives the failure returns at once, and a
\* finished run makes no call.
C8_Step ==
    /\ (AwaitsGateway /\ last_reply' # None /\ ~last_reply'[1].ok) =>
          /\ pc' = "done"
          /\ tool_calls' = tool_calls /\ plain_calls' = plain_calls
          /\ search_log' = search_log /\ pending' = pending
    /\ pc = "done" =>
          /\ pc' = "done"
          /\ tool_calls' = tool_calls /\ plain_calls' = plain_calls
          /\ search_log' = search_log

\* C8: a call_deepseek failure in the question phase, in any research
\* iteration or in the plan phase ends the run: create_plan returns a
\* non-empty diagnostic containing the cause and makes no further completion
\* or search call.
C8_GatewayFailureAborts == []C8_Inv /\ [][C8_Step]_vars

\* C8 witness: the gateway failed in a research iteration after two searches
C8_Witness ==
    /\ pc = "done"
    /\ search_count = 2
    /\ last_reply = Some(Err(GatewayCause))
    /\ result = Some(<<"DeepSeek error: ">> \o GatewayCause)

\* C9: when search_duckduckgo returns Err, the function-result message
\* carries the text "Search error: <cause>" and the run goes on.
C9_SearchErrorVisible ==
    [][(DispatchCompletes /\ ~CompletedOutcome.ok) =>
          /\ pc' \in {"await_research", "await_plan"}
          /\ messages'[Len(messages')].role = "function"
          /\ messages'[Len(messages')].content
                = Some(<<"Search error: ">> \o CompletedOutcome.val)]_vars

\* C10: a search_web call whose arguments are not valid JSON, or are JSON
\* without a string field query, is answered with a diagnostic and no search
\* is performed for it: a search is only ever in flight for arguments that
\* parse and carry a query.
C10_NoSearchOnBadArguments ==
    pc = "await_search" =>
        /\ ParseArgs(pending[1].fc.arguments).ok
        /\ ParseArgs(pending[1].fc.arguments).val.query # None

\* the reply text does not have the shape create_plan expects in phase `at`
BadShape(text, at) ==
    \/ ~Decode(text).ok
    \/ Decode(text).val.choices = <<>>
    \/ at = "await_plan" /\ Decode(text).val.choices[1].message.content = None

\* C11: a successful gateway reply, in the research loop or in the plan
\* phase, that is not JSON, has no or an empty choices list, or (plan phase)
\* has a first choice without content, ends the run with a non-empty
\* diagnostic string: the handler returns, it does not crash.
C11_BadShapeIsDiagnostic ==
    [][(pc \in {"await_research", "await_plan"} /\ last_reply' # None
        /\ last_reply'[1].ok /\ BadShape(last_reply'[1].val, pc)) =>
          /\ pc' = "done"
          /\ result' # None
          /\ result'[1] # <<>>]_vars

\* C17: in the research loop a successful gateway reply that is ordinary
\* prose, not a JSON document, is taken as plain content: it is appended to
\* the knowledge base and the run goes on.
C17_ProseIsContent ==
    [][(pc = "await_research" /\ last_reply' # None /\ last_reply'[1].ok
        /\ ~Decode(last_reply'[1].val).ok) =>
          /\ pc' \in {"await_research", "await_plan"}
          /\ result' = None
          /\ knowledge_base' = knowledge_base \o last_reply'[1].val]_vars

\* the reply is a decodable message without tool call whose content does not
\* contain the marker
PlainOtherReply(reply) ==
    /\ reply.ok
    /\ Decode(reply.val).ok
    /\ Decode(reply.val).val.choices # <<>>
    /\ LET m == Decode(reply.val).val.choices[1].message IN
          /\ m.function_call = None
          /\ m.content # None
          /\ ~Contains(m.content[1], SENTINEL)

ReplyMessage(reply) == Decode(reply.val).val.choices[1].message

\* the step handles a plain-content reply without the marker
IntermediateReply ==
    pc = "await_research" /\ last_reply' # None /\ PlainOtherReply(last_reply'[1])

\* the step takes the run from the research loop into the plan phase
EntersPlan == pc \in {"await_research", "await_search"} /\ pc' = "await_plan"

HasMarker(kb) == Contains(kb, SENTINEL) \/ Contains(kb, PLAN_HEADER)

\* what every intermediate reply does to the knowledge base and conversation
IntermediateRecorded ==
    /\ knowledge_base' = knowledge_base \o ReplyContent(last_reply'[1])
    /\ messages' = Append(messages, ReplyMessage(last_reply'[1]))
    /\ search_count' = search_count

\* C18 as stated: with budget remaining, a plain-content reply without the
\* marker is appended to the knowledge base and to the conversation and the
\* loop issues another tool-enabled call; the run enters the plan phase only
\* when a single reply's content contains the marker or the budget is
\* exhausted.
C18_Original ==
    [][/\ IntermediateReply =>
            /\ IntermediateRecorded
            /\ pc' = "await_research"
            /\ tool_calls' = tool_calls + 1
       /\ EntersPlan =>
            \/ search_count' = MAX_SEARCHES
            \/ (pc = "await_research" /\ PlainFinalReply(last_reply'[1]))]_vars

\* C18 as amended: such a reply is appended to the knowledge base and to the
\* conversation, and the loop issues another tool-enabled call with the
\* grown conversation unless the accumulated knowledge base now contains
\* "<<FINAL_ANSWER>>" or "## Final Technical Plan", in which case the plan
\* call is issued; the run enters the plan phase only when the knowledge
\* base contains one of the two markers (a reply with the marker puts it
\* there) or the budget is exhausted.
C18_Intermediate ==
    [][/\ IntermediateReply =>
            /\ IntermediateRecorded
            /\ IF HasMarker(knowledge_base')
               THEN pc' = "await_plan" /\ tool_calls' = tool_calls
               ELSE /\ pc' = "await_research"
                    /\ tool_calls' = tool_calls + 1
                    /\ last_call' = Some([messages |-> messages',
                                          functions |-> Some(search_fn)])
       /\ EntersPlan =>
            \/ search_count' = MAX_SEARCHES
            \/ HasMarker(knowledge_base')]_vars

\* C18 witness: after one search the model sent notes without the marker and
\* the next tool-enabled call is in flight with the notes in the conversation
C18_Witness ==
    /\ pc = "await_research"
    /\ search_count = 1
    /\ tool_calls = 3
    /\ messages[Len(messages)] = Message("assistant", Some(Notes), None, None)
    /\ knowledge_base = SearchLogLine(1, RoutineQuery) \o Notes

\* the conversation a research run starts from, written out
InboundPrefix ==
    <<[role |-> "system", content |-> Some(RESEARCH_PROMPT), name |-> None,
       function_call |-> None]>> \o request

IsPrefix(p, q) == Len(p) <= Len(q) /\ SubSeq(q, 1, Len(p)) = p

\* C19 (state part): once the research conversation exists it starts with
\* the research prompt followed by the inbound messages, field for field,
\* and a tool-enabled call carries exactly that conversation.
C19_Inv ==
    /\ messages # <<>> => IsPrefix(InboundPrefix, messages)
    /\ (last_call # None /\ last_call[1].functions # None) =>
          /\ last_call[1].messages = messages
          /\ IsPrefix(InboundPrefix, last_call[1].messages)

\* C19 (step part): every step leaves the messages already in the
\* conversation where they are, unmodified.
C19_Step == messages # <<>> => IsPrefix(messages, messages')

\* C19: throughout a research run the conversation is only appended to: the
\* research prompt followed by the whole inbound conversation stays a prefix
\* of what is sent to the gateway, and earlier messages keep their place.
C19_AppendOnly == []C19_Inv /\ [][C19_Step]_vars

\* C19 witness: a tool-enabled call is in flight for a conversation that has
\* grown by a dispatch and a note, behind the inbound message named "alice"
C19_Witness ==
    /\ pc = "await_research"
    /\ Len(messages) = Len(request) + 1 + 3
    /\ messages[3].name = Some("alice")
    /\ last_call[1].messages = messages

\* the plan call, written out
PlanCallOver(kb) ==
    Some([messages |->
              <<[role |-> "system", content |-> Some(PLAN_PROMPT), name |-> None,
                 function_call |-> None],
                [role |-> "user", content |-> Some(kb), name |-> None,
                 function_call |-> None]>>,
          functions |-> None])

\* C20 (state part): in a run on more than one message no call without tool
\* schema is made inside the loop, and a run that left the loop for the plan
\* phase has made exactly one, whose messages are the plan prompt and the
\* whole knowledge base.
C20_Inv ==
    Len(request) > 1 =>
        /\ pc \in {"start", "await_research", "await_search"} => plain_calls = 0
        /\ plain_calls <= 1
        /\ pc = "await_plan" =>
              /\ plain_calls = 1
              /\ last_call = PlanCallOver(knowledge_base)
        /\ plain_calls = 1 =>
              /\ LeftLoop
              /\ last_call = PlanCallOver(knowledge_base)

\* C20 (step part): the knowledge base is only appended to, and only by a
\* step of the research loop; after the loop it does not change and no
\* second plan call is made.
C20_Step ==
    /\ IsPrefix(knowledge_base, knowledge_base')
    /\ knowledge_base' # knowledge_base => pc \in {"await_research", "await_search"}
    /\ LeftLoop => (knowledge_base' = knowledge_base /\ plain_calls' = plain_calls)

OtherToolReply(reply) ==
    /\ reply.ok
    /\ Decode(reply.val).ok
    /\ Decode(reply.val).val.choices # <<>>
    /\ LET m == Decode(reply.val).val.choices[1].message IN
          /\ m.function_call # None
          /\ m.function_call[1].name # "search_web"

\* the step handles a reply that calls a tool other than search_web
PassthroughReply ==
    pc = "await_research" /\ last_reply' # None /\ OtherToolReply(last_reply'[1])

\* C21: a reply whose tool call names a tool other than search_web starts no
\* search, leaves search_count alone, appends no function-role message and
\* no search log line, and is handled as a non-tool reply: its content, if
\* any, is appended to the knowledge base and checked for the marker, and
\* the assistant message joins the conversation unless the marker was there.
C21_OtherToolPassthrough ==
    [][PassthroughReply =>
          LET m == ReplyMessage(last_reply'[1]) IN
          /\ pc' # "await_search"
          /\ pending' = None
          /\ search_log' = search_log
          /\ search_count' = search_count
          /\ \A k \in 1..Len(Appended) : Appended[k].role # "function"
          /\ knowledge_base' = knowledge_base \o UnwrapOrEmpty(m.content)
          /\ IF m.content # None /\ Contains(m.content[1], SENTINEL)
             THEN pc' = "await_plan" /\ messages' = messages
             ELSE /\ messages' = Append(messages, m)
                  /\ pc' \in {"await_research", "await_plan"}
                  /\ pc' = "await_plan" <=> HasMarker(knowledge_base')]_vars

\* C21 witness: a fetch_page call with notes was passed through before any
\* search and the next tool-enabled call is in flight
C21_Witness ==
    /\ pc = "await_research"
    /\ search_count = 0
    /\ search_log = <<>>
    /\ messages # <<>>
    /\ LET m == messages[Len(messages)] IN
          /\ m.function_call # None
          /\ m.function_call[1].name = "fetch_page"
          /\ m.content = Some(Notes)
    /\ knowledge_base = Notes

\* the function-role messages the loop appended after the system prompt and
\* the inbound conversation
FunctionMessagesAppended ==
    IF messages = <<>> THEN {}
    ELSE {k \in (Len(request) + 2)..Len(messages) : messages[k].role = "function"}

\* the numbers of the search log lines of kb, in order; a log line is the
\* text the dispatch wrote, which opens with "\n--- Search #"
RECURSIVE LogNumbers(_)
LogNumbers(kb) ==
    IF kb = <<>> THEN <<>>
    ELSE IF Head(kb) = "\n--- Search #" /\ Len(kb) >= 2
    THEN <<kb[2]>> \o LogNumbers(Tail(kb))
    ELSE LogNumbers(Tail(kb))

\* at every await of the run the three counts agree with search_count
C24_Inv ==
    /\ search_count = Len(search_log)
    /\ search_count = Cardinality(FunctionMessagesAppended)
    /\ LogNumbers(knowledge_base) = [n \in 1..search_count |-> ToString(n)]

\* search_count moves only when a dispatch completes, and then by one,
\* whatever the search returned and whatever the query was
C24_Step ==
    /\ DispatchCompletes =>
          /\ search_count' = search_count + 1
          /\ Len(search_log') = Len(search_log) + 1
    /\ search_count' # search_count => DispatchCompletes

\* C24: search_count equals the number of search_web dispatches performed,
\* the number of function-role messages the loop appended and the number of
\* search log lines in the knowledge base, which are numbered
\* 1..search_count in order; every dispatch consumes exactly one unit of
\* budget, whether the search succeeded, failed or ran with an empty query.
C24_CountsAgree == []C24_Inv /\ [][C24_Step]_vars

\* C24 witness: several dispatches were counted, one that failed and one
\* that ran with the defaulted empty query
C24_Witness ==
    /\ pc = "await_research"
    /\ search_count >= 2
    /\ \E i \in 1..Len(search_log) : ~search_log[i].outcome.ok
    /\ \E j \in 1..Len(search_log) : search_log[j].query = <<>>
    /\ \E k \in 1..Len(search_log) : search_log[k].outcome.ok

\* the conversation is empty, or its first message has no content or only
\* whitespace
EmptyInbound(req) ==
    \/ req = <<>>
    \/ Head(req).content = None
    \/ \A k \in 1..Len(Head(req).content[1]) : Head(req).content[1][k] = WS

\* C25: with an empty conversation, or a first message without content or
\* with whitespace only, create_plan returns "Error: empty prompt" at once,
\* however many messages follow: no completion call, no search, no phase.
C25_EmptyPromptRejected ==
    (EmptyInbound(request) /\ pc # "start") =>
        /\ pc = "done"
        /\ result = Some(EmptyPrompt)
        /\ plain_calls = 0 /\ tool_calls = 0
        /\ last_call = None /\ last_reply = None
        /\ search_log = <<>> /\ pending = None /\ search_count = 0
        /\ messages = <<>> /\ knowledge_base = <<>>

\* C25 witness: a conversation of three messages with a blank first message
\* was rejected
C25_Witness ==
    /\ Len(request) = 3
    /\ EmptyInbound(request)
    /\ pc = "done"
    /\ result = Some(EmptyPrompt)

\* a plan operation of the CLI is in its research phase
CliResearching ==
    /\ main_pc = "in_flight"
    /\ cli_choice = Some("p")
    /\ cli_run[1].pc \in {"await_research", "await_search", "await_plan"}

\* C22: in the CLI, whenever a plan operation is in the research phase, an
\* earlier plan operation on the same un-reset context ran the question
\* phase.
C22_QuestionsBeforeResearch == CliResearching => questioned

\* the context is the one the operation in flight started from, and no
\* operation state outlives the operation
C23_Inv ==
    /\ main_pc = "in_flight" => cli_messages = cli_request[1]
    /\ main_pc # "in_flight" =>
          cli_request = None /\ cli_choice = None /\ cli_run = None /\ cli_fed = 0

\* a cancellation goes back to the mode prompt with the context untouched;
\* the plan operation started next begins from that context alone
C23_Step ==
    /\ (main_pc = "in_flight" /\ cli_dropped' # None) =>
          /\ main_pc' = "mode_choice"
          /\ cli_messages' = cli_messages
          /\ cli_messages' = cli_request[1]
    /\ (main_pc = "mode_choice" /\ main_pc' = "in_flight" /\ cli_choice' = Some("p")) =>
          /\ cli_messages' = cli_messages
          /\ cli_run' = Some(RunStart(cli_messages))
          /\ cli_run'[1].search_count = 0
          /\ cli_run'[1].knowledge_base = <<>>

\* C23: cancelling a chat or plan operation in flight returns to the mode
\* prompt and leaves the conversation exactly as it was before the operation
\* started: no assistant message is appended and nothing of the cancelled
\* run (search count, knowledge base, tool messages) stays in the context.
C23_CancelLeavesContext == []C23_Inv /\ [][C23_Step]_vars

\* C23 witness: a plan operation was cancelled after it had searched, and
\* the mode prompt is shown with the three messages it started from
C23_Witness ==
    /\ main_pc = "mode_choice"
    /\ cli_dropped # None
    /\ cli_dropped[1].choice = "p"
    /\ cli_dropped[1].run[1].search_count >= 1
    /\ cli_dropped[1].run[1].knowledge_base # <<>>
    /\ Len(cli_messages) = 3
    /\ cli_messages[3].role = "user"

====
